---- MODULE Spec2Model ----
(***************************************************************************)
(* A model of the sudsy request pipeline: the rate-limiting middleware     *)
(* (internal/ratelimiting) with its host cache, its lock and its grooming  *)
(* goroutine, and the URL path pattern table of an application section     *)
(* (internal/urlpathpatternhandler, internal/application).                 *)
(*                                                                         *)
(* Strings are sequences of one-character strings, so that splitting,      *)
(* prefix tests and comparisons are computed as the code computes them.    *)
(* Times are integers; 0 is the zero value of time.Time and the clock      *)
(* starts at 1.                                                            *)
(***************************************************************************)
EXTENDS Integers, Sequences, FiniteSets, TLC

VARIABLES
    sessionConfigs,             \* handler.sessionConfigs
    hostCacheEntryIdleDuration, \* handler.hostCacheEntryIdleDuration
    remoteHosts,                \* handler.remoteHosts: host -> clientEntry
    hostCacheLocker,            \* holder of handler.hostCacheLocker, or Free
    now,                        \* the clock behind deps.Now() and the ticker
    app,                        \* position of the goroutine running the server lifecycle
    ticker,                     \* handler.hostCacheGroomingTicker: "nil", "running", "stopped"
    tickerC,                    \* the ticker's channel (capacity 1): <<>> or <<t>>
    wg,                         \* the WaitGroup counter
    gpc,                        \* position of the grooming goroutine
    gt,                         \* the tick time t the grooming goroutine received
    pc,                         \* position of each request goroutine in ServeHTTP
    req,                        \* the request each request goroutine serves
    host,                       \* the local host of ServeHTTP
    calls,                      \* per request: invocations of the three outcomes
    stored,                     \* per request: the entry it stored in remoteHosts
    served,                     \* number of ServeHTTP calls made so far
    sent,                       \* per host: requests since its entry was created, while
                                \* a window begun at the creation is open (0 afterwards)
    createdAt,                  \* per host: time its entry was created, likewise
    exceeded,                   \* per host: a window of its entry has expired with a
                                \* request count above maxRequests
    rejected,                   \* per host: requests rejected since its entry was created
    sweepsAfterStop,            \* sweeps made since the ticker was stopped
    lastSweep,                  \* the cache before and the tick time of the last sweep
    urlPathPatternHandlers,     \* section.urlPathPatternHandlers (patterns)
    panicked,                   \* AddPathPatternHandler panicked
    lastAdd,                    \* the pattern of the last AddPathPatternHandler call
    built,                      \* NewHandler has built the sectionHandler
    routed,                     \* the last request sectionHandler.ServeHTTP dispatched
    compared,                   \* the patterns handed to the comparator, and its results
    twin,                       \* two filters that differ in banDuration only
    auth                        \* a request in basicauth's ServeHTTP

rlVars == <<sessionConfigs, hostCacheEntryIdleDuration, remoteHosts, hostCacheLocker,
            now, app, ticker, tickerC, wg, gpc, gt, pc, req, host, calls, stored,
            served, sent, createdAt, exceeded, rejected, sweepsAfterStop, lastSweep>>

routeVars == <<urlPathPatternHandlers, panicked, lastAdd, built, routed, compared>>

twinVars == <<twin>>

authVars == <<auth>>

vars == <<rlVars, routeVars, twinVars, authVars>>

-----------------------------------------------------------------------------
(* Bounds of the model *)

MaxTime == 3

MaxServed == 3

MaxServedSerial == 5

\* The number of requests served before and during the shutdown under fair
\* scheduling.
MaxServedShutdown == 1

MaxPatterns == 3

-----------------------------------------------------------------------------
(* Strings *)

\* Byte value of the characters the model uses.
CharOrd(c) ==
    CASE c = "/" -> 47
      [] c = "8" -> 56
      [] c = ":" -> 58
      [] c = "a" -> 97
      [] c = "b" -> 98
      [] c = "x" -> 120
      [] c = "y" -> 121

HasPrefix(s, c) == Len(s) > 0 /\ s[1] = c

TrimPrefix(s, c) == IF HasPrefix(s, c) THEN Tail(s) ELSE s

\* Index of the first c in s, 0 when there is none.
RECURSIVE IndexFrom(_, _, _)
IndexFrom(s, c, i) ==
    IF i > Len(s) THEN 0
    ELSE IF s[i] = c THEN i
    ELSE IndexFrom(s, c, i + 1)

\* Index of the last c in s, 0 when there is none.
RECURSIVE LastIndexFrom(_, _, _)
LastIndexFrom(s, c, i) ==
    IF i < 1 THEN 0
    ELSE IF s[i] = c THEN i
    ELSE LastIndexFrom(s, c, i - 1)

\* strings.Split(s, c): always at least one part.
RECURSIVE Split(_, _)
Split(s, c) ==
    LET i == IndexFrom(s, c, 1)
    IN IF i = 0 THEN <<s>>
       ELSE <<SubSeq(s, 1, i - 1)>> \o Split(SubSeq(s, i + 1, Len(s)), c)

\* cmp.Compare on strings: bytewise lexicographic, -1, 0 or 1.
RECURSIVE CmpCompare(_, _)
CmpCompare(a, b) ==
    IF a = <<>> /\ b = <<>> THEN 0
    ELSE IF a = <<>> THEN -1
    ELSE IF b = <<>> THEN 1
    ELSE IF CharOrd(a[1]) < CharOrd(b[1]) THEN -1
    ELSE IF CharOrd(a[1]) > CharOrd(b[1]) THEN 1
    ELSE CmpCompare(Tail(a), Tail(b))

-----------------------------------------------------------------------------
(* internal/ratelimiting: pure functions *)

Free == "free"

TimeZero == 0

NoError == "nil"

\* net.SplitHostPort for addresses without brackets: the port starts after
\* the last colon, and the host before it holds no colon.
SplitHostPort(hostport) ==
    LET i == LastIndexFrom(hostport, ":", Len(hostport))
        h == SubSeq(hostport, 1, i - 1)
    IN IF i = 0 THEN [host |-> <<>>, err |-> "missing port in address"]
       ELSE IF IndexFrom(h, ":", 1) > 0
            THEN [host |-> <<>>, err |-> "too many colons in address"]
       ELSE [host |-> h, err |-> NoError]

\* The mutant of getApplicableHost that looks at x-forwarded-for first.
getApplicableHostForwardedFirst(r) ==
    IF Len(r.xff) > 0 THEN [host |-> r.xff[Len(r.xff)], err |-> NoError]
    ELSE IF r.fastly # <<>> THEN [host |-> r.fastly, err |-> NoError]
    ELSE LET hp == SplitHostPort(r.remoteAddr)
         IN IF hp.err # NoError THEN [host |-> <<>>, err |-> hp.err]
            ELSE IF hp.host # <<>> THEN [host |-> hp.host, err |-> NoError]
            ELSE [host |-> <<>>, err |-> "no applicable host"]

\* The mutant of getApplicableHost that accepts an empty host.
getApplicableHostEmptyHost(r) ==
    IF r.fastly # <<>> THEN [host |-> r.fastly, err |-> NoError]
    ELSE IF Len(r.xff) > 0 THEN [host |-> r.xff[Len(r.xff)], err |-> NoError]
    ELSE LET hp == SplitHostPort(r.remoteAddr)
         IN IF hp.err # NoError THEN [host |-> <<>>, err |-> hp.err]
            ELSE [host |-> hp.host, err |-> NoError]

getApplicableHost(r) ==
    IF r.fastly # <<>> THEN [host |-> r.fastly, err |-> NoError]
    ELSE IF Len(r.xff) > 0 THEN [host |-> r.xff[Len(r.xff)], err |-> NoError]
    ELSE LET hp == SplitHostPort(r.remoteAddr)
         IN IF hp.err # NoError THEN [host |-> <<>>, err |-> hp.err]
            ELSE IF hp.host # <<>> THEN [host |-> hp.host, err |-> NoError]
            ELSE [host |-> <<>>, err |-> "no applicable host"]

\* The mutant of isBanned that looks at the last session only.
isBannedLastOnly(c) ==
    Len(c.sessions) > 0 /\ c.sessions[Len(c.sessions)].bannedAt # TimeZero

\* The mutant of isBanned under which a ban lasts for the window that
\* began with it.
isBannedCurrentWindow(c) ==
    \E i \in 1..Len(c.sessions) :
        c.sessions[i].bannedAt # TimeZero /\ c.sessions[i].bannedAt = c.sessions[i].startedAt

\* The mutant of isBanned that needs a ban time in every session.
isBannedAll(c) == \A i \in 1..Len(c.sessions) : c.sessions[i].bannedAt # TimeZero

isBanned(c) == \E i \in 1..Len(c.sessions) : c.sessions[i].bannedAt # TimeZero

\* A session as newClientEntry builds it: requestCount and bannedAt keep
\* their zero values.
newSession(t, c) ==
    [requestCount |-> 0, config |-> c, bannedAt |-> TimeZero, startedAt |-> t]

newClientEntry(t, configs) ==
    [sessions      |-> [i \in 1..Len(configs) |-> newSession(t, configs[i])],
     lastUpdatedAt |-> t]

\* The mutant of updatedSession that lifts the ban when the expired window
\* stayed within maxRequests.
updatedSessionLiftsBan(s, t) ==
    IF t - s.startedAt >= s.config.sessionDuration
    THEN [requestCount |-> 1,
          config       |-> s.config,
          bannedAt     |-> IF s.requestCount > s.config.maxRequests THEN t ELSE TimeZero,
          startedAt    |-> t]
    ELSE [s EXCEPT !.requestCount = s.requestCount + 1]

\* The mutant of updatedSession that bans at a request count of maxRequests.
updatedSessionBansAtMax(s, t) ==
    IF t - s.startedAt >= s.config.sessionDuration
    THEN [requestCount |-> 1,
          config       |-> s.config,
          bannedAt     |-> IF s.requestCount >= s.config.maxRequests THEN t ELSE s.bannedAt,
          startedAt    |-> t]
    ELSE [s EXCEPT !.requestCount = s.requestCount + 1]

\* The mutant of updatedSession that sets the ban time inside the window,
\* on the request that takes the request count above maxRequests.
updatedSessionBansInside(s, t) ==
    IF t - s.startedAt >= s.config.sessionDuration
    THEN [requestCount |-> 1,
          config       |-> s.config,
          bannedAt     |-> IF s.requestCount > s.config.maxRequests THEN t ELSE s.bannedAt,
          startedAt    |-> t]
    ELSE [s EXCEPT !.requestCount = s.requestCount + 1,
                   !.bannedAt = IF s.requestCount + 1 > s.config.maxRequests
                                THEN t ELSE s.bannedAt]

\* The mutant of updatedSession that lifts a ban at the first rollover at
\* least banDuration after it.
updatedSessionBanExpires(s, t) ==
    IF t - s.startedAt >= s.config.sessionDuration
    THEN [requestCount |-> 1,
          config       |-> s.config,
          bannedAt     |-> IF s.requestCount > s.config.maxRequests THEN t
                           ELSE IF t - s.bannedAt >= s.config.banDuration THEN TimeZero
                           ELSE s.bannedAt,
          startedAt    |-> t]
    ELSE [s EXCEPT !.requestCount = s.requestCount + 1]

\* The mutant of updatedSession that keeps counting over a rollover.
updatedSessionKeepsCount(s, t) ==
    IF t - s.startedAt >= s.config.sessionDuration
    THEN [requestCount |-> s.requestCount + 1,
          config       |-> s.config,
          bannedAt     |-> IF s.requestCount > s.config.maxRequests THEN t ELSE s.bannedAt,
          startedAt    |-> t]
    ELSE [s EXCEPT !.requestCount = s.requestCount + 1]

\* The body of the loop of newUpdatedEntry.
updatedSession(s, t) ==
    IF t - s.startedAt >= s.config.sessionDuration
    THEN [requestCount |-> 1,
          config       |-> s.config,
          bannedAt     |-> IF s.requestCount > s.config.maxRequests THEN t ELSE s.bannedAt,
          startedAt    |-> t]
    ELSE [requestCount |-> s.requestCount + 1,
          config       |-> s.config,
          bannedAt     |-> s.bannedAt,
          startedAt    |-> s.startedAt]

\* The mutant of newUpdatedEntry that rolls every window over as soon as
\* one of them has expired.
newUpdatedEntryTogether(existingEntry, t) ==
    LET expired(s) == t - s.startedAt >= s.config.sessionDuration
        anyExpired == \E i \in 1..Len(existingEntry.sessions) :
                          expired(existingEntry.sessions[i])
    IN [sessions |->
            [i \in 1..Len(existingEntry.sessions) |->
                LET s == existingEntry.sessions[i]
                IN IF anyExpired /\ ~expired(s)
                   THEN [s EXCEPT !.requestCount = 1, !.startedAt = t]
                   ELSE updatedSession(s, t)],
        lastUpdatedAt |-> t]

newUpdatedEntry(existingEntry, t) ==
    [sessions      |-> [i \in 1..Len(existingEntry.sessions) |->
                            updatedSession(existingEntry.sessions[i], t)],
     lastUpdatedAt |-> t]

\* The mutant of idleTooLong that also evicts at exactly the threshold.
idleTooLongInclusive(entry, t) == t - entry.lastUpdatedAt >= hostCacheEntryIdleDuration

\* The predicate onHostCacheGroomingTick hands to maps.DeleteFunc.
idleTooLong(entry, t) == t - entry.lastUpdatedAt > hostCacheEntryIdleDuration

-----------------------------------------------------------------------------
(* internal/ratelimiting: the handler *)

\* The request goroutines of the HTTP server, and the grooming goroutine.
Procs == {"r1", "r2"}

Groomer == "groomer"

\* The unit of time is the period of the grooming ticker, 10 * time.Second.
\* 20 * time.Minute in this unit:
DefaultIdleDuration == 120

\* The values SetHostCacheEntryIdleDuration is called with.
IdleDurations == {1}

\* The lists of session configs the section is set up with.
ConfigLists ==
    LET PA == [maxRequests |-> 1, sessionDuration |-> 1, banDuration |-> 2]
        PB == [maxRequests |-> 2, sessionDuration |-> 2, banDuration |-> 1]
    IN { <<PA>>, <<PA, PB>> }

\* The requests: fastly-client-ip (empty when absent), the x-forwarded-for
\* values, and RemoteAddr.
Requests ==
    { [fastly |-> <<"a">>, xff |-> << <<"b">> >>,          remoteAddr |-> <<"b", ":", "8">>],
      [fastly |-> <<>>,    xff |-> << <<"a">>, <<"b">> >>, remoteAddr |-> <<":", "8">>],
      [fastly |-> <<>>,    xff |-> <<>>,                   remoteAddr |-> <<"a", ":", "8">>],
      [fastly |-> <<>>,    xff |-> <<>>,                   remoteAddr |-> <<":", "8">>],
      [fastly |-> <<>>,    xff |-> <<>>,                   remoteAddr |-> <<"a", ":", "b", ":", "8">>],
      [fastly |-> <<>>,    xff |-> <<>>,                   remoteAddr |-> <<"b">>] }

\* The lists AddSessionConfig passes through on the way to one of ConfigLists.
ConfigPrefixes == UNION { { SubSeq(l, 1, n) : n \in 1..Len(l) } : l \in ConfigLists }

\* The session configs AddSessionConfig is called with.
Policies == UNION { { l[i] : i \in 1..Len(l) } : l \in ConfigLists }

NoRequest == [fastly |-> <<>>, xff |-> <<>>, remoteAddr |-> <<>>]

NoCalls == [bad |-> 0, tooMany |-> 0, next |-> 0]

NoEntry == [sessions |-> <<>>, lastUpdatedAt |-> TimeZero]

NoSweep == [t |-> TimeZero, before |-> <<>>]

\* The map without the keys of gone.
Without(m, gone) == [h \in DOMAIN m \ gone |-> m[h]]

\* Some session of the entry is still in the window that began when the
\* entry was created at time c.
FirstWindowOpen(entry, c) ==
    \E i \in 1..Len(entry.sessions) : entry.sessions[i].startedAt = c

\* At time t a window of the entry has expired with a request count above
\* its maxRequests.
ExpiresAboveMax(entry, t) ==
    \E i \in 1..Len(entry.sessions) :
        /\ t - entry.sessions[i].startedAt >= entry.sessions[i].config.sessionDuration
        /\ entry.sessions[i].requestCount > entry.sessions[i].config.maxRequests

InitRateLimiting ==
    /\ sessionConfigs = <<>>
    /\ hostCacheEntryIdleDuration = DefaultIdleDuration
    /\ remoteHosts = <<>>
    /\ hostCacheLocker = Free
    /\ now = 1
    /\ app = "setup"
    /\ ticker = "nil"
    /\ tickerC = <<>>
    /\ wg = 0
    /\ gpc = "none"
    /\ gt = TimeZero
    /\ pc = [p \in Procs |-> "idle"]
    /\ req = [p \in Procs |-> NoRequest]
    /\ host = [p \in Procs |-> <<>>]
    /\ calls = [p \in Procs |-> NoCalls]
    /\ stored = [p \in Procs |-> NoEntry]
    /\ served = 0
    /\ sent = <<>>
    /\ createdAt = <<>>
    /\ exceeded = <<>>
    /\ rejected = <<>>
    /\ sweepsAfterStop = 0
    /\ lastSweep = NoSweep

\* No request was dispatched yet.
NoRouted == [path |-> <<>>, outcome |-> "none", pattern |-> <<>>, context |-> {}]

\* The comparator was handed nothing.
NoCompared == [args |-> <<>>, done |-> FALSE, ab |-> 0, ba |-> 0, bc |-> 0, ac |-> 0, aa |-> 0]

InitRoute ==
    /\ urlPathPatternHandlers = <<>>
    /\ panicked = FALSE
    /\ lastAdd = <<>>
    /\ built = FALSE
    /\ routed = NoRouted
    /\ compared = NoCompared

\* No pair of filters is compared.
NoTwin == [configs |-> <<>>, others |-> <<>>, a |-> <<>>, b |-> <<>>, t |-> 0,
           served |-> 0, host |-> <<>>, decisionA |-> "none", decisionB |-> "none"]

\* No request is in basicauth's ServeHTTP.
NoAuth == [pc |-> "none"]

Init == InitRateLimiting /\ InitRoute /\ twin = NoTwin /\ auth = NoAuth

AddSessionConfig(c) ==
    /\ app = "setup"
    /\ Append(sessionConfigs, c) \in ConfigPrefixes
    /\ sessionConfigs' = Append(sessionConfigs, c)
    /\ UNCHANGED <<hostCacheEntryIdleDuration, remoteHosts, hostCacheLocker, now, app,
                   ticker, tickerC, wg, gpc, gt, pc, req, host, calls, stored, served,
                   sent, createdAt, exceeded, rejected, sweepsAfterStop, lastSweep, routeVars, twinVars, authVars>>

SetHostCacheEntryIdleDuration(d) ==
    /\ app = "setup"
    /\ hostCacheEntryIdleDuration' = d
    /\ UNCHANGED <<sessionConfigs, remoteHosts, hostCacheLocker, now, app,
                   ticker, tickerC, wg, gpc, gt, pc, req, host, calls, stored, served,
                   sent, createdAt, exceeded, rejected, sweepsAfterStop, lastSweep, routeVars, twinVars, authVars>>

\* BeforeStart, called by ListenAndServe before the server listens; the
\* section builds the filter only when a session config exists.
BeforeStart ==
    /\ app = "setup"
    /\ sessionConfigs \in ConfigLists
    /\ ticker' = "running"
    /\ wg' = wg + 1
    /\ gpc' = "select"
    /\ app' = "serving"
    /\ UNCHANGED <<sessionConfigs, hostCacheEntryIdleDuration, remoteHosts,
                   hostCacheLocker, now, tickerC, gt, pc, req, host, calls, stored,
                   served, sent, createdAt, exceeded, rejected, sweepsAfterStop, lastSweep, routeVars, twinVars, authVars>>

\* The clock advances by one ticker period. A running ticker sends the
\* time on its channel, which holds one tick; the tick is dropped while the
\* channel is full.
Tick ==
    /\ app # "setup"
    /\ now < MaxTime
    /\ now' = now + 1
    /\ tickerC' = IF ticker = "running" /\ tickerC = <<>> THEN <<now + 1>> ELSE tickerC
    /\ UNCHANGED <<sessionConfigs, hostCacheEntryIdleDuration, remoteHosts,
                   hostCacheLocker, app, ticker, wg, gpc, gt, pc, req, host,
                   calls, stored, served, sent, createdAt, exceeded, rejected, sweepsAfterStop, lastSweep, routeVars, twinVars, authVars>>

\* The mutant of LockFree under which Lock does not wait.
LockFreeAlways == TRUE

\* sync.Mutex.Lock returns only when nobody holds the mutex.
LockFree == hostCacheLocker = Free

\* The server calls ServeHTTP on a request goroutine.
Call(p, max) ==
    /\ app = "serving"
    /\ pc[p] = "idle"
    /\ served < max
    /\ served' = served + 1
    /\ pc' = [pc EXCEPT ![p] = "lock"]
    /\ UNCHANGED <<sessionConfigs, hostCacheEntryIdleDuration, remoteHosts,
                   hostCacheLocker, now, app, ticker, tickerC, wg, gpc, gt, req, host,
                   calls, stored, sent, createdAt, exceeded, rejected, sweepsAfterStop, lastSweep, routeVars, twinVars, authVars>>

\* ServeHTTP: h.hostCacheLocker.Lock().
Lock(p) ==
    /\ pc[p] = "lock"
    /\ LockFree
    /\ hostCacheLocker' = p
    /\ pc' = [pc EXCEPT ![p] = "resolve"]
    /\ UNCHANGED <<sessionConfigs, hostCacheEntryIdleDuration, remoteHosts, now, app,
                   ticker, tickerC, wg, gpc, gt, req, host, calls, stored, served,
                   sent, createdAt, exceeded, rejected, sweepsAfterStop, lastSweep, routeVars, twinVars, authVars>>

\* ServeHTTP: getApplicableHost and, on an error, HandleStatusBadRequest.
\* The request r of the call is read here for the first time.
Resolve(p, r) ==
    /\ pc[p] = "resolve"
    /\ req' = [req EXCEPT ![p] = r]
    /\ LET res == getApplicableHost(r)
       IN IF res.err # NoError
          THEN /\ calls' = [calls EXCEPT ![p].bad = @ + 1]
               /\ pc' = [pc EXCEPT ![p] = "unlock"]
               /\ host' = host
          ELSE /\ host' = [host EXCEPT ![p] = res.host]
               /\ pc' = [pc EXCEPT ![p] = "touch"]
               /\ calls' = calls
    /\ UNCHANGED <<sessionConfigs, hostCacheEntryIdleDuration, remoteHosts,
                   hostCacheLocker, now, app, ticker, tickerC, wg, gpc, gt,
                   stored, served, sent, createdAt, exceeded, rejected, sweepsAfterStop, lastSweep, routeVars, twinVars, authVars>>

\* The mutant of Touch that stores the entry of host in an emptied map.
TouchForgetsOthers(p) ==
    /\ pc[p] = "touch"
    /\ LET h == host[p]
           found == h \in DOMAIN remoteHosts
           entry == IF found THEN newUpdatedEntry(remoteHosts[h], now)
                             ELSE newClientEntry(now, sessionConfigs)
       IN /\ remoteHosts' = (h :> entry)
          /\ stored' = [stored EXCEPT ![p] = entry]
          /\ sent' = (h :> 0)
          /\ createdAt' = (h :> TimeZero)
          /\ exceeded' = (h :> (found /\ exceeded[h]))
          /\ rejected' = (h :> (IF found THEN rejected[h] ELSE 0))
    /\ pc' = [pc EXCEPT ![p] = "check"]
    /\ UNCHANGED <<sessionConfigs, hostCacheEntryIdleDuration, hostCacheLocker, now,
                   app, ticker, tickerC, wg, gpc, gt, req, host, calls, served,
                   sweepsAfterStop, lastSweep, routeVars, twinVars, authVars>>

\* ServeHTTP: the entry of host is updated, or created.
Touch(p) ==
    /\ pc[p] = "touch"
    /\ LET h == host[p]
           found == h \in DOMAIN remoteHosts
           entry == IF found THEN newUpdatedEntry(remoteHosts[h], now)
                             ELSE newClientEntry(now, sessionConfigs)
       IN /\ remoteHosts' = (h :> entry) @@ remoteHosts
          /\ stored' = [stored EXCEPT ![p] = entry]
          /\ sent' = (h :> (IF ~found THEN 1
                             ELSE IF FirstWindowOpen(entry, createdAt[h]) THEN sent[h] + 1
                             ELSE 0)) @@ sent
          /\ createdAt' = (h :> (IF ~found THEN now
                                  ELSE IF FirstWindowOpen(entry, createdAt[h]) THEN createdAt[h]
                                  ELSE TimeZero)) @@ createdAt
          /\ exceeded' = (h :> (found /\ (exceeded[h] \/ ExpiresAboveMax(remoteHosts[h], now))))
                              @@ exceeded
          /\ rejected' = (h :> (IF found THEN rejected[h] ELSE 0)) @@ rejected
    /\ pc' = [pc EXCEPT ![p] = "check"]
    /\ UNCHANGED <<sessionConfigs, hostCacheEntryIdleDuration, hostCacheLocker, now,
                   app, ticker, tickerC, wg, gpc, gt, req, host, calls, served,
                   sweepsAfterStop, lastSweep, routeVars, twinVars, authVars>>

\* ServeHTTP: HandleStatusTooManyRequests, or the call of next.ServeHTTP.
Check(p) ==
    /\ pc[p] = "check"
    /\ IF isBanned(remoteHosts[host[p]])
       THEN /\ calls' = [calls EXCEPT ![p].tooMany = @ + 1]
            /\ rejected' = [rejected EXCEPT ![host[p]] = @ + 1]
            /\ pc' = [pc EXCEPT ![p] = "unlock"]
       ELSE /\ calls' = [calls EXCEPT ![p].next = @ + 1]
            /\ rejected' = rejected
            /\ pc' = [pc EXCEPT ![p] = "next"]
    /\ req' = [req EXCEPT ![p] = NoRequest]
    /\ UNCHANGED <<sessionConfigs, hostCacheEntryIdleDuration, remoteHosts,
                   hostCacheLocker, now, app, ticker, tickerC, wg, gpc, gt, host,
                   stored, served, sent, createdAt, exceeded, sweepsAfterStop, lastSweep, routeVars, twinVars, authVars>>

\* next.ServeHTTP returns.
NextReturn(p) ==
    /\ pc[p] = "next"
    /\ pc' = [pc EXCEPT ![p] = "unlock"]
    /\ UNCHANGED <<sessionConfigs, hostCacheEntryIdleDuration, remoteHosts,
                   hostCacheLocker, now, app, ticker, tickerC, wg, gpc, gt, req, host,
                   calls, stored, served, sent, createdAt, exceeded, rejected, sweepsAfterStop, lastSweep, routeVars, twinVars, authVars>>

\* ServeHTTP returns: the deferred h.hostCacheLocker.Unlock().
Unlock(p) ==
    /\ pc[p] = "unlock"
    /\ hostCacheLocker' = Free
    /\ pc' = [pc EXCEPT ![p] = "idle"]
    /\ req' = [req EXCEPT ![p] = NoRequest]
    /\ host' = [host EXCEPT ![p] = <<>>]
    /\ calls' = [calls EXCEPT ![p] = NoCalls]
    /\ stored' = [stored EXCEPT ![p] = NoEntry]
    /\ UNCHANGED <<sessionConfigs, hostCacheEntryIdleDuration, remoteHosts, now, app,
                   ticker, tickerC, wg, gpc, gt, served, sent, createdAt, exceeded, rejected, sweepsAfterStop, lastSweep,
                   routeVars, twinVars, authVars>>

-----------------------------------------------------------------------------
(* internal/ratelimiting: the grooming loop and the lifecycle *)

\* startHostCacheGroomingLoop: case t := <-h.hostCacheGroomingTicker.C.
GroomReceiveTick ==
    /\ gpc = "select"
    /\ tickerC # <<>>
    /\ gt' = tickerC[1]
    /\ tickerC' = <<>>
    /\ gpc' = "lock"
    /\ UNCHANGED <<sessionConfigs, hostCacheEntryIdleDuration, remoteHosts,
                   hostCacheLocker, now, app, ticker, wg, pc, req, host, calls,
                   stored, served, sent, createdAt, exceeded, rejected, sweepsAfterStop, lastSweep, routeVars, twinVars, authVars>>

\* onHostCacheGroomingTick: h.hostCacheLocker.Lock().
GroomLock ==
    /\ gpc = "lock"
    /\ LockFree
    /\ hostCacheLocker' = Groomer
    /\ gpc' = "sweep"
    /\ UNCHANGED <<sessionConfigs, hostCacheEntryIdleDuration, remoteHosts, now, app,
                   ticker, tickerC, wg, gt, pc, req, host, calls, stored, served,
                   sent, createdAt, exceeded, rejected, sweepsAfterStop, lastSweep, routeVars, twinVars, authVars>>

\* onHostCacheGroomingTick: maps.DeleteFunc.
GroomSweep ==
    /\ gpc = "sweep"
    /\ LET gone == { h \in DOMAIN remoteHosts : idleTooLong(remoteHosts[h], gt) }
       IN /\ remoteHosts' = Without(remoteHosts, gone)
          /\ sent' = Without(sent, gone)
          /\ createdAt' = Without(createdAt, gone)
          /\ exceeded' = Without(exceeded, gone)
          /\ rejected' = Without(rejected, gone)
    /\ sweepsAfterStop' = IF ticker = "stopped" THEN sweepsAfterStop + 1
                                              ELSE sweepsAfterStop
    /\ lastSweep' = [t |-> gt, before |-> remoteHosts]
    /\ gpc' = "unlock"
    /\ UNCHANGED <<sessionConfigs, hostCacheEntryIdleDuration, hostCacheLocker, now,
                   app, ticker, tickerC, wg, gt, pc, req, host, calls, stored, served,
                   routeVars, twinVars, authVars>>

\* onHostCacheGroomingTick returns: the deferred Unlock; back to the select.
GroomUnlock ==
    /\ gpc = "unlock"
    /\ hostCacheLocker' = Free
    /\ gpc' = "select"
    /\ gt' = TimeZero
    /\ lastSweep' = NoSweep
    /\ UNCHANGED <<sessionConfigs, hostCacheEntryIdleDuration, remoteHosts, now, app,
                   ticker, tickerC, wg, pc, req, host, calls, stored, served, sent,
                   createdAt, exceeded, rejected, sweepsAfterStop, routeVars, twinVars, authVars>>

\* httpServer.ListenAndServe returns in ListenAndServe: no further request
\* is accepted.
ServerClosed ==
    /\ app = "serving"
    /\ app' = "closed"
    /\ UNCHANGED <<sessionConfigs, hostCacheEntryIdleDuration, remoteHosts,
                   hostCacheLocker, now, ticker, tickerC, wg, gpc, gt, pc, req, host,
                   calls, stored, served, sent, createdAt, exceeded, rejected, sweepsAfterStop, lastSweep, routeVars, twinVars, authVars>>

\* AfterShutdown, stopHostCacheGroomingLoop: h.hostCacheGroomingTicker.Stop().
\* Stop does not close the channel. A tick sent before Stop stays receivable
\* when the channel is the buffered one of the Go releases before 1.23, and
\* is not receivable any more with the synchronous channel of Go 1.23 and
\* later: the build decides, so both happen.
StopTicker ==
    /\ app = "closed"
    /\ ticker' = "stopped"
    /\ tickerC' \in {tickerC, <<>>}
    /\ app' = "sendquit"
    /\ UNCHANGED <<sessionConfigs, hostCacheEntryIdleDuration, remoteHosts,
                   hostCacheLocker, now, wg, gpc, gt, pc, req, host, calls,
                   stored, served, sent, createdAt, exceeded, rejected, sweepsAfterStop, lastSweep, routeVars, twinVars, authVars>>

\* The mutant of GroomReceiveQuit with a buffered quit channel: the send
\* returns without the grooming goroutine receiving.
GroomReceiveQuitBuffered ==
    /\ app = "sendquit"
    /\ app' = "wait"
    /\ UNCHANGED <<sessionConfigs, hostCacheEntryIdleDuration, remoteHosts,
                   hostCacheLocker, now, ticker, tickerC, wg, gpc, gt, pc, req, host,
                   calls, stored, served, sent, createdAt, exceeded, rejected, sweepsAfterStop, lastSweep, routeVars, twinVars, authVars>>

\* The mutant of GroomReceiveQuit under which case <-quit goes round the
\* loop again instead of returning.
GroomReceiveQuitLoops ==
    /\ app = "sendquit"
    /\ gpc = "select"
    /\ app' = "wait"
    /\ UNCHANGED <<sessionConfigs, hostCacheEntryIdleDuration, remoteHosts,
                   hostCacheLocker, now, ticker, tickerC, wg, gpc, gt, pc, req, host,
                   calls, stored, served, sent, createdAt, exceeded, rejected,
                   sweepsAfterStop, lastSweep, routeVars, twinVars, authVars>>

\* quit <- true meets case <-quit of the select: the channel is unbuffered,
\* so AfterShutdown returns when the grooming goroutine receives.
GroomReceiveQuit ==
    /\ app = "sendquit"
    /\ gpc = "select"
    /\ gpc' = "return"
    /\ app' = "wait"
    /\ UNCHANGED <<sessionConfigs, hostCacheEntryIdleDuration, remoteHosts,
                   hostCacheLocker, now, ticker, tickerC, wg, gt, pc, req, host, calls,
                   stored, served, sent, createdAt, exceeded, rejected, sweepsAfterStop, lastSweep, routeVars, twinVars, authVars>>

\* startHostCacheGroomingLoop returns: the deferred wg.Done().
GroomExit ==
    /\ gpc = "return"
    /\ wg' = wg - 1
    /\ gpc' = "exited"
    /\ UNCHANGED <<sessionConfigs, hostCacheEntryIdleDuration, remoteHosts,
                   hostCacheLocker, now, app, ticker, tickerC, gt, pc, req, host,
                   calls, stored, served, sent, createdAt, exceeded, rejected, sweepsAfterStop, lastSweep, routeVars, twinVars, authVars>>

\* wg.Wait() returns in ListenAndServe.
WaitReturns ==
    /\ app = "wait"
    /\ wg = 0
    /\ app' = "exited"
    /\ UNCHANGED <<sessionConfigs, hostCacheEntryIdleDuration, remoteHosts,
                   hostCacheLocker, now, ticker, tickerC, wg, gpc, gt, pc, req, host,
                   calls, stored, served, sent, createdAt, exceeded, rejected, sweepsAfterStop, lastSweep, routeVars, twinVars, authVars>>

Setup ==
    \/ \E c \in Policies : AddSessionConfig(c)
    \/ \E d \in IdleDurations : SetHostCacheEntryIdleDuration(d)
    \/ BeforeStart

Serving(procs, max) ==
    \/ Tick
    \/ \E p \in procs : Call(p, max)
    \/ \E p \in procs : Lock(p)
    \/ \E p \in procs, r \in Requests : Resolve(p, r)
    \/ \E p \in procs : Touch(p)
    \/ \E p \in procs : Check(p)
    \/ \E p \in procs : NextReturn(p)
    \/ \E p \in procs : Unlock(p)

Grooming ==
    \/ GroomReceiveTick
    \/ GroomLock
    \/ GroomSweep
    \/ GroomUnlock

Shutdown ==
    \/ ServerClosed
    \/ StopTicker
    \/ GroomReceiveQuit
    \/ GroomExit
    \/ WaitReturns

\* The filter while the server runs, with concurrent request goroutines.
Next == Setup \/ Serving(Procs, MaxServed) \/ Grooming

Spec == Init /\ [][Next]_vars

\* The filter while the server runs, its requests served one after the
\* other by one request goroutine: room for more requests.
NextSerial == Setup \/ Serving({"r1"}, MaxServedSerial) \/ Grooming

SpecSerial == Init /\ [][NextSerial]_vars

\* The filter from the start of the server to the end of its shutdown.
NextLifecycle == Setup \/ Serving(Procs, MaxServed) \/ Grooming \/ Shutdown

SpecLifecycle == Init /\ [][NextLifecycle]_vars

\* The filter from construction to the end of ListenAndServe with one
\* request goroutine, under fair scheduling.
NextShutdown ==
    Setup \/ Serving({"r1"}, MaxServedShutdown) \/ Grooming \/ Shutdown

\* A request goroutine that can take a step takes one: the mutex is handed
\* over once it is free, and next.ServeHTTP returns.
RequestProgress ==
    \E p \in {"r1"} :
        \/ Lock(p)
        \/ \E r \in Requests : Resolve(p, r)
        \/ Touch(p)
        \/ Check(p)
        \/ NextReturn(p)
        \/ Unlock(p)

\* The grooming goroutine takes a ready case of its select, and goes on
\* through onHostCacheGroomingTick and its return.
GroomerProgress ==
    \/ GroomReceiveTick
    \/ GroomReceiveQuit
    \/ GroomLock
    \/ GroomSweep
    \/ GroomUnlock
    \/ GroomExit

\* ListenAndServe goes on after httpServer.ListenAndServe has returned.
MainProgress == StopTicker \/ WaitReturns

SpecShutdown ==
    /\ Init
    /\ [][NextShutdown]_vars
    /\ WF_vars(RequestProgress)
    /\ WF_vars(GroomerProgress)
    /\ WF_vars(MainProgress)

-----------------------------------------------------------------------------
(* internal/ratelimiting: two filters that differ in banDuration only *)

\* The values the banDuration of a policy of the second filter takes.
BanDurations == {0, 1, 2, 3}

\* Two handlers with the same policies but for banDuration, no entry yet.
InitTwin ==
    /\ InitRateLimiting
    /\ InitRoute
    /\ auth = NoAuth
    /\ \E l \in ConfigLists : \E bans \in [1..Len(l) -> BanDurations] :
           twin = [NoTwin EXCEPT
                      !.configs = l,
                      !.others  = [i \in 1..Len(l) |-> [l[i] EXCEPT !.banDuration = bans[i]]],
                      !.t       = 1]

\* ServeHTTP from the map lookup to the decision, on a cache with the
\* session configs and the clock reading given.
servedCache(cache, h, configs, t) ==
    (h :> (IF h \in DOMAIN cache THEN newUpdatedEntry(cache[h], t)
                                 ELSE newClientEntry(t, configs))) @@ cache

\* The same request is served by both handlers at the same clock reading.
TwinServeHTTP(r) ==
    /\ twin.t # TimeZero
    /\ twin.served < MaxServedSerial
    /\ LET res == getApplicableHost(r)
           a == servedCache(twin.a, res.host, twin.configs, twin.t)
           b == servedCache(twin.b, res.host, twin.others, twin.t)
       IN twin' = IF res.err # NoError
                  THEN [twin EXCEPT !.served = @ + 1, !.host = <<>>,
                                    !.decisionA = "bad", !.decisionB = "bad"]
                  ELSE [twin EXCEPT
                           !.served = @ + 1,
                           !.host = res.host,
                           !.a = a,
                           !.b = b,
                           !.decisionA = IF isBanned(a[res.host]) THEN "tooMany" ELSE "next",
                           !.decisionB = IF isBanned(b[res.host]) THEN "tooMany" ELSE "next"]
    /\ UNCHANGED <<rlVars, routeVars, authVars>>

\* The clock of both handlers advances by one ticker period.
TwinTick ==
    /\ twin.t # TimeZero
    /\ twin.t < MaxTime
    /\ twin' = [twin EXCEPT !.t = @ + 1]
    /\ UNCHANGED <<rlVars, routeVars, authVars>>

\* onHostCacheGroomingTick runs in both handlers with the same tick time.
TwinSweep ==
    /\ twin.t # TimeZero
    /\ twin' = [twin EXCEPT
                   !.a = Without(twin.a, { h \in DOMAIN twin.a : idleTooLong(twin.a[h], twin.t) }),
                   !.b = Without(twin.b, { h \in DOMAIN twin.b : idleTooLong(twin.b[h], twin.t) })]
    /\ UNCHANGED <<rlVars, routeVars, authVars>>

NextTwin ==
    \/ \E d \in IdleDurations : SetHostCacheEntryIdleDuration(d)
    \/ \E r \in Requests : TwinServeHTTP(r)
    \/ TwinTick
    \/ TwinSweep

SpecTwin == InitTwin /\ [][NextTwin]_vars

-----------------------------------------------------------------------------
(* internal/basicauth *)

\* The request methods, and the user names and passwords of the model.
Methods == {"GET", "POST", "OPTIONS"}

Usernames == {"u", "v"}

Passwords == {"p", "q"}

\* sha256.Sum256: different inputs have different digests.
Sum256(b) == <<"sha256", b>>

\* subtle.ConstantTimeCompare of two digests.
ConstantTimeCompare(x, y) == IF x = y THEN 1 ELSE 0

\* A handler built for a user name and a password, and a request at the
\* start of its ServeHTTP: req.BasicAuth() returns ok with a user name and
\* a password, or not ok with two empty strings.
InitAuth ==
    /\ InitRateLimiting
    /\ InitRoute
    /\ twin = NoTwin
    /\ \E eu \in Usernames, ep \in Passwords, m \in Methods :
       \E ba \in [ok : {TRUE}, username : Usernames, password : Passwords]
                  \cup {[ok |-> FALSE, username |-> "", password |-> ""]} :
           auth = [pc                   |-> "start",
                   expectedUsernameHash |-> Sum256(eu),
                   expectedPasswordHash |-> Sum256(ep),
                   method               |-> m,
                   basicAuth            |-> ba,
                   nextCalls            |-> 0,
                   unauthorized         |-> 0]

\* ServeHTTP: if req.Method == "OPTIONS" { h.next.ServeHTTP(w, req) }; the
\* function goes on after the call.
AuthPreflight ==
    /\ auth.pc = "start"
    /\ auth' = [auth EXCEPT
                   !.pc = "credentials",
                   !.nextCalls = IF auth.method = "OPTIONS" THEN @ + 1 ELSE @]
    /\ UNCHANGED <<rlVars, routeVars, twinVars>>

\* ServeHTTP from req.BasicAuth() on: next.ServeHTTP and return when both
\* digests match, else the www-authenticate header and http.Error 401.
AuthCredentials ==
    /\ auth.pc = "credentials"
    /\ LET usernameMatch ==
               ConstantTimeCompare(Sum256(auth.basicAuth.username),
                                   auth.expectedUsernameHash) = 1
           passwordMatch ==
               ConstantTimeCompare(Sum256(auth.basicAuth.password),
                                   auth.expectedPasswordHash) = 1
       IN auth' = IF auth.basicAuth.ok /\ usernameMatch /\ passwordMatch
                  THEN [auth EXCEPT !.pc = "returned", !.nextCalls = @ + 1]
                  ELSE [auth EXCEPT !.pc = "returned", !.unauthorized = @ + 1]
    /\ UNCHANGED <<rlVars, routeVars, twinVars>>

NextAuth == AuthPreflight \/ AuthCredentials

SpecAuth == InitAuth /\ [][NextAuth]_vars

-----------------------------------------------------------------------------
(* internal/urlpathpatternhandler and the pattern table of a section *)

\* The patterns AddPathPatternHandler is called with.
Patterns ==
    { <<"/", "a">>,
      <<"/", "b">>,
      <<"/", ":", "x">>,
      <<"/", "a", "/", ":", "x">>,
      <<"/", "a", "/", ":", "y">>,
      <<"/", ":", "x", "/", "b">>,
      <<"/", ":", "x", "/", ":", "x">> }

\* The request paths sectionHandler.ServeHTTP is called with.
Paths ==
    { <<"/", "a">>,
      <<"/", "b">>,
      <<"/", "a", "/", "b">>,
      <<"/", "b", "/", "a">>,
      <<"/", "a", "/">> }

splitParts(s) == Split(TrimPrefix(s, "/"), "/")

\* compareParts: only the parts of lparts that are no capture are compared.
RECURSIVE comparePartsFrom(_, _, _)
comparePartsFrom(lparts, rparts, i) ==
    IF i > Len(lparts) THEN 0
    ELSE IF ~HasPrefix(lparts[i], ":") /\ CmpCompare(lparts[i], rparts[i]) < 0 THEN -1
    ELSE IF ~HasPrefix(lparts[i], ":") /\ CmpCompare(lparts[i], rparts[i]) > 0 THEN 1
    ELSE comparePartsFrom(lparts, rparts, i + 1)

\* The mutant of compareParts whose first test is llen <= rlen.
comparePartsLessOrEqual(lparts, rparts) ==
    IF Len(lparts) <= Len(rparts) THEN -1
    ELSE IF Len(lparts) > Len(rparts) THEN 1
    ELSE comparePartsFrom(lparts, rparts, 1)

compareParts(lparts, rparts) ==
    IF Len(lparts) < Len(rparts) THEN -1
    ELSE IF Len(lparts) > Len(rparts) THEN 1
    ELSE comparePartsFrom(lparts, rparts, 1)

ComparePatternHandlers(l, r) == compareParts(splitParts(l), splitParts(r))

ComparePatternHandlerToPath(h, requestPath) ==
    compareParts(splitParts(h), splitParts(requestPath))

\* ValidateResponders: the pattern with its capture parts replaced by "".
staticPatternOf(pattern) ==
    LET parts == splitParts(pattern)
    IN [i \in 1..Len(parts) |-> IF HasPrefix(parts[i], ":") THEN <<>> ELSE parts[i]]

\* The mutant of alreadySavedFrom that compares the lengths only.
alreadySavedSameLength(staticPattern, staticPatterns, k, alreadySaved) ==
    \A n \in 1..Len(staticPatterns) : Len(staticPattern) = Len(staticPatterns[n])

\* ValidateResponders, the loop over the saved static patterns: alreadySaved
\* becomes false at a saved pattern that differs in some part, and a saved
\* pattern of another length makes it false and ends the loop.
RECURSIVE alreadySavedFrom(_, _, _, _)
alreadySavedFrom(staticPattern, staticPatterns, k, alreadySaved) ==
    IF k > Len(staticPatterns) THEN alreadySaved
    ELSE IF Len(staticPattern) # Len(staticPatterns[k]) THEN FALSE
    ELSE alreadySavedFrom(staticPattern, staticPatterns, k + 1,
            IF \E i \in 1..Len(staticPattern) : staticPattern[i] # staticPatterns[k][i]
            THEN FALSE ELSE alreadySaved)

\* ValidateResponders, the loop over the handlers from the n-th on, with the
\* static patterns saved so far: TRUE when it returns nil.
RECURSIVE validateFrom(_, _, _)
validateFrom(handlers, n, staticPatterns) ==
    IF n > Len(handlers) THEN TRUE
    ELSE LET staticPattern == staticPatternOf(handlers[n])
         IN IF Len(staticPatterns) < 1
            THEN validateFrom(handlers, n + 1, Append(staticPatterns, staticPattern))
            ELSE IF alreadySavedFrom(staticPattern, staticPatterns, 1, TRUE)
            THEN FALSE
            ELSE validateFrom(handlers, n + 1, Append(staticPatterns, staticPattern))

\* ValidateResponders(handlers) = nil.
ValidateResponders(handlers) == validateFrom(handlers, 1, <<>>)

\* slices.SortFunc on a slice of at most 12 elements is an insertion sort:
\* the element at j moves down while it compares less than the one before.
RECURSIVE insertDown(_, _)
insertDown(data, j) ==
    IF j > 1 /\ ComparePatternHandlers(data[j], data[j - 1]) < 0
    THEN insertDown([data EXCEPT ![j] = data[j - 1], ![j - 1] = data[j]], j - 1)
    ELSE data

RECURSIVE insertionSortFrom(_, _)
insertionSortFrom(data, i) ==
    IF i > Len(data) THEN data
    ELSE insertionSortFrom(insertDown(data, i), i + 1)

SortFunc(data) == insertionSortFrom(data, 2)

\* section.AddPathPatternHandler: append, validate (panic on an error), sort.
AddPathPatternHandler(pattern) ==
    /\ ~panicked
    /\ ~built
    /\ Len(urlPathPatternHandlers) < MaxPatterns
    /\ lastAdd' = pattern
    /\ LET appended == Append(urlPathPatternHandlers, pattern)
       IN IF ValidateResponders(appended)
          THEN /\ urlPathPatternHandlers' = SortFunc(appended)
               /\ panicked' = FALSE
          ELSE /\ urlPathPatternHandlers' = appended
               /\ panicked' = TRUE
    /\ UNCHANGED <<built, routed, compared, rlVars, twinVars, authVars>>

\* section.NewHandler: the sectionHandler gets the pattern table.
NewHandler ==
    /\ ~panicked
    /\ ~built
    /\ built' = TRUE
    /\ UNCHANGED <<urlPathPatternHandlers, panicked, lastAdd, routed, compared, rlVars, twinVars, authVars>>

\* slices.BinarySearchFunc(x, target, ComparePatternHandlerToPath) with the
\* bounds i and j counted from 1: the position, where the search ends.
RECURSIVE binarySearchFrom(_, _, _, _)
binarySearchFrom(x, target, i, j) ==
    IF i < j
    THEN LET h == (i + j) \div 2
         IN IF ComparePatternHandlerToPath(x[h], target) < 0
            THEN binarySearchFrom(x, target, h + 1, j)
            ELSE binarySearchFrom(x, target, i, h)
    ELSE i

\* The mutant of BinarySearchFunc that reports every position inside the
\* slice as found.
BinarySearchFuncInside(x, target) ==
    LET i == binarySearchFrom(x, target, 1, Len(x) + 1)
    IN [idx |-> i, found |-> i <= Len(x)]

\* slices.BinarySearchFunc: the position and whether the target was found.
BinarySearchFunc(x, target) ==
    LET i == binarySearchFrom(x, target, 1, Len(x) + 1)
    IN [idx   |-> i,
        found |-> i <= Len(x) /\ ComparePatternHandlerToPath(x[i], target) = 0]

\* urlPatternHandler.ServeHTTP, the loop from index i on: a capture part of
\* the pattern is the key of the path part at its index; a later write to
\* the same key replaces the earlier one.
RECURSIVE contextValFrom(_, _, _, _)
contextValFrom(patternParts, pathParts, i, contextVal) ==
    IF i > Len(pathParts) THEN contextVal
    ELSE contextValFrom(patternParts, pathParts, i + 1,
            IF HasPrefix(patternParts[i], ":")
            THEN (patternParts[i] :> pathParts[i]) @@ contextVal
            ELSE contextVal)

\* The mutant of contextValOf whose keys are the capture names without ":".
contextValOfNames(pattern, path) ==
    LET m == contextValFrom(splitParts(pattern), splitParts(path), 1, <<>>)
    IN [k \in { Tail(t) : t \in DOMAIN m } |-> m[<<":">> \o k]]

\* urlPatternHandler.ServeHTTP: the map contextVal.
contextValOf(pattern, path) ==
    contextValFrom(splitParts(pattern), splitParts(path), 1, <<>>)

\* urlPatternHandler.ServeHTTP: what the request handed to httpHandler
\* carries under contextKey; nothing when contextVal is empty.
PatternServeHTTP(pattern, path) ==
    IF Len(splitParts(path)) # Len(splitParts(pattern))
    THEN [path |-> path, outcome |-> "panic", pattern |-> pattern, context |-> {}]
    ELSE LET contextVal == contextValOf(pattern, path)
         IN [path    |-> path,
             outcome |-> "handler",
             pattern |-> pattern,
             context |-> IF DOMAIN contextVal # {} THEN {contextVal} ELSE {}]

\* sectionHandler.ServeHTTP: the pattern handler found by the binary
\* search serves the request, or the not-found handler does.
SectionServeHTTP(path) ==
    /\ built
    /\ LET r == BinarySearchFunc(urlPathPatternHandlers, path)
       IN routed' = IF r.found
                    THEN PatternServeHTTP(urlPathPatternHandlers[r.idx], path)
                    ELSE [path |-> path, outcome |-> "notFound", pattern |-> <<>>,
                          context |-> {}]
    /\ UNCHANGED <<urlPathPatternHandlers, panicked, lastAdd, built, compared, rlVars, twinVars, authVars>>

\* The setup of a section's pattern table.
NextRoute ==
    \/ \E pattern \in Patterns : AddPathPatternHandler(pattern)
    \/ NewHandler
    \/ \E path \in Paths : SectionServeHTTP(path)

SpecRoute == Init /\ [][NextRoute]_vars

\* The comparator on its own: it is handed any three patterns a, b, c.
InitCompare ==
    /\ InitRateLimiting
    /\ urlPathPatternHandlers = <<>>
    /\ panicked = FALSE
    /\ lastAdd = <<>>
    /\ built = FALSE
    /\ routed = NoRouted
    /\ twin = NoTwin
    /\ auth = NoAuth
    /\ \E a \in Patterns, b \in Patterns, c \in Patterns :
           compared = [NoCompared EXCEPT !.args = <<a, b, c>>]

\* ComparePatternHandlers is called on the pairs of the three patterns.
ComparePatterns ==
    /\ ~compared.done
    /\ Len(compared.args) = 3
    /\ LET a == compared.args[1]
           b == compared.args[2]
           c == compared.args[3]
       IN compared' = [args |-> compared.args,
                       done |-> TRUE,
                       ab   |-> ComparePatternHandlers(a, b),
                       ba   |-> ComparePatternHandlers(b, a),
                       bc   |-> ComparePatternHandlers(b, c),
                       ac   |-> ComparePatternHandlers(a, c),
                       aa   |-> ComparePatternHandlers(a, a)]
    /\ UNCHANGED <<urlPathPatternHandlers, panicked, lastAdd, built, routed, rlVars, twinVars, authVars>>

NextCompare == ComparePatterns

SpecCompare == InitCompare /\ [][NextCompare]_vars

-----------------------------------------------------------------------------
(* Properties of the rate-limiting filter *)

\* The request goroutines whose ServeHTTP has decided: next.ServeHTTP is
\* running, or only the deferred Unlock is left.
Decided(p) == pc[p] \in {"next", "unlock"}

\* Some session tracker of the entry has a ban time.
AnyBan(entry) == \E i \in 1..Len(entry.sessions) : entry.sessions[i].bannedAt # TimeZero

\* C1 as stated: with a single policy (maxRequests = N, sessionDuration =
\* W), the (N+1)-th and every later request an identity sends within the
\* window that began with its first request is answered by the
\* too-many-requests handler and is not forwarded to the next handler.
C1_RejectedBeyondMax ==
    \A p \in Procs :
        (/\ Len(sessionConfigs) = 1
         /\ Decided(p)
         /\ calls[p].bad = 0
         /\ host[p] \in DOMAIN sent
         /\ createdAt[host[p]] # TimeZero
         /\ sent[host[p]] >= sessionConfigs[1].maxRequests + 1)
        => (calls[p].tooMany = 1 /\ calls[p].next = 0)

\* C1 as amended: with a single policy, a request is answered by the
\* too-many-requests handler and not forwarded if and only if a window of
\* the identity's tracker has expired, on this or an earlier request since
\* the entry was created, with a request count above maxRequests; every
\* other request is forwarded, so every request within the window that
\* began with the entry's creation.
C1_RejectedAfterRollover ==
    \A p \in Procs :
        (Len(sessionConfigs) = 1 /\ Decided(p) /\ calls[p].bad = 0) =>
            /\ host[p] \in DOMAIN exceeded
            /\ exceeded[host[p]] => (calls[p].tooMany = 1 /\ calls[p].next = 0)
            /\ ~exceeded[host[p]] => (calls[p].tooMany = 0 /\ calls[p].next = 1)
            /\ createdAt[host[p]] # TimeZero => ~exceeded[host[p]]

\* The request that rolls over a window with more than maxRequests
\* requests is answered by the too-many-requests handler.
C1_Witness ==
    \E p \in Procs :
        /\ Len(sessionConfigs) = 1
        /\ pc[p] = "unlock"
        /\ calls[p].tooMany = 1
        /\ exceeded[host[p]]
        /\ stored[p].sessions[1].bannedAt = stored[p].sessions[1].startedAt

\* C2: a session tracker's ban time, once set, is never reset to zero by an
\* update of its entry; an update leaves it alone or replaces it by a later
\* time, for as long as the entry stays in the cache.
C2_BanNeverCleared ==
    [][\A h \in DOMAIN remoteHosts :
          h \in DOMAIN remoteHosts' =>
            /\ Len(remoteHosts'[h].sessions) = Len(remoteHosts[h].sessions)
            /\ \A i \in 1..Len(remoteHosts[h].sessions) :
                  remoteHosts[h].sessions[i].bannedAt # TimeZero =>
                     /\ remoteHosts'[h].sessions[i].bannedAt # TimeZero
                     /\ remoteHosts'[h].sessions[i].bannedAt >=
                            remoteHosts[h].sessions[i].bannedAt]_vars

\* A banned tracker whose window rolled over after the ban, the expired
\* window within maxRequests: the ban time is older than the window.
C2_Witness ==
    \E h \in DOMAIN remoteHosts : \E i \in 1..Len(remoteHosts[h].sessions) :
        /\ remoteHosts[h].sessions[i].bannedAt # TimeZero
        /\ remoteHosts[h].sessions[i].bannedAt < remoteHosts[h].sessions[i].startedAt

\* C3: the filter does not hold the cache lock while next.ServeHTTP runs.
C3_NextOutsideLock == \A p \in Procs : pc[p] = "next" => hostCacheLocker # p

\* The request goroutines between Lock and Unlock, and the grooming
\* goroutine between Lock and Unlock.
InSection ==
    { p \in Procs : pc[p] \in {"resolve", "touch", "check", "next", "unlock"} }
        \cup (IF gpc \in {"sweep", "unlock"} THEN {Groomer} ELSE {})

\* C4: at most one of the request goroutines and the grooming goroutine is
\* inside its section that reads or writes remoteHosts, and it holds
\* hostCacheLocker.
C4_MutualExclusion ==
    /\ Cardinality(InSection) <= 1
    /\ \A q \in InSection : hostCacheLocker = q

\* A request goroutine is about to update the cache while the other one and
\* the grooming goroutine wait for the lock.
C4_Witness ==
    \E p \in Procs, q \in Procs :
        /\ pc[p] = "touch"
        /\ pc[q] = "lock"
        /\ gpc = "lock"

\* C5: while all k requests an identity has sent fall within one session
\* window, its trackers' request count is k.
C5_CountMatchesSent ==
    \A h \in DOMAIN remoteHosts : \A i \in 1..Len(remoteHosts[h].sessions) :
        remoteHosts[h].sessions[i].startedAt = createdAt[h]
            => remoteHosts[h].sessions[i].requestCount = sent[h]

\* C6: after a sweep at time t the cache holds exactly the entries it held
\* before whose idle time t - lastUpdatedAt is at most the idle threshold,
\* unchanged.
C6_SweepKeepsFresh ==
    gpc = "unlock" =>
        remoteHosts =
            [h \in { k \in DOMAIN lastSweep.before :
                        lastSweep.t - lastSweep.before[k].lastUpdatedAt
                            <= hostCacheEntryIdleDuration }
               |-> lastSweep.before[h]]

\* A sweep removed an entry and kept one that was idle for exactly the
\* threshold.
C6_Witness ==
    /\ gpc = "unlock"
    /\ DOMAIN lastSweep.before \ DOMAIN remoteHosts # {}
    /\ \E h \in DOMAIN remoteHosts :
          lastSweep.t - remoteHosts[h].lastUpdatedAt = hostCacheEntryIdleDuration

\* C7: a request whose identity resolves gets exactly one of the
\* too-many-requests handler and the next handler, once: the former if and
\* only if the entry it stored has a tracker with a ban time.
C7_ExactlyOneOutcome ==
    \A p \in Procs :
        /\ pc[p] \in {"idle", "lock", "resolve", "touch", "check"} => calls[p] = NoCalls
        /\ (Decided(p) /\ calls[p].bad = 0) =>
              /\ stored[p] = remoteHosts[host[p]]
              /\ calls[p].tooMany + calls[p].next = 1
              /\ calls[p].tooMany = 1 <=> AnyBan(stored[p])
              /\ pc[p] = "next" => calls[p].next = 1

\* A request was answered by the too-many-requests handler.
C7_Witness ==
    \E p \in Procs : pc[p] = "unlock" /\ calls[p].tooMany = 1

\* The number of colons of an address.
Colons(a) == Cardinality({ i \in 1..Len(a) : a[i] = ":" })

\* No header names an identity and the connection address is unparsable
\* (not host:port) or has an empty host.
ResolutionFails(r) ==
    /\ r.fastly = <<>>
    /\ r.xff = <<>>
    /\ (Colons(r.remoteAddr) # 1 \/ r.remoteAddr[1] = ":")

\* C8: when identity resolution fails, the bad-request handler is invoked,
\* the too-many-requests handler and the next handler are not, and the
\* cache is left as it was.
C8_ResolutionFailure ==
    [][\A p \in Procs :
          /\ (pc[p] = "resolve" /\ pc'[p] # "resolve" /\ ResolutionFails(req'[p])) =>
                /\ pc'[p] = "unlock"
                /\ calls'[p] = [bad |-> 1, tooMany |-> 0, next |-> 0]
                /\ remoteHosts' = remoteHosts
          /\ (pc[p] = "unlock" /\ pc'[p] # "unlock"
                /\ req[p] \in Requests /\ ResolutionFails(req[p])) =>
                /\ calls[p] = [bad |-> 1, tooMany |-> 0, next |-> 0]
                /\ remoteHosts' = remoteHosts]_vars

\* A request with an empty host in its address was answered by the
\* bad-request handler while the cache holds an entry.
C8_Witness ==
    \E p \in Procs :
        /\ pc[p] = "unlock"
        /\ calls[p].bad = 1
        /\ req[p].remoteAddr = <<":", "8">>
        /\ remoteHosts # <<>>

\* The identity the priority names: the trusted proxy header, else the last
\* forwarded-for value, else the host part of the connection address.
PriorityHost(r) ==
    IF r.fastly # <<>> THEN r.fastly
    ELSE IF r.xff # <<>> THEN r.xff[Len(r.xff)]
    ELSE SubSeq(r.remoteAddr, 1, IndexFrom(r.remoteAddr, ":", 1) - 1)

\* C9: the identity a request is tracked under is the trusted proxy header
\* if it is non-empty, else the last forwarded-for value if there is one,
\* else the host part of the connection address.
C9_ResolutionPriority ==
    \A p \in Procs :
        /\ pc[p] \in {"touch", "check"} => host[p] = PriorityHost(req[p])
        /\ pc[p] = "check" =>
              /\ PriorityHost(req[p]) \in DOMAIN remoteHosts
              /\ remoteHosts[PriorityHost(req[p])] = stored[p]

\* A request with both headers is tracked under the trusted proxy header.
C9_Witness ==
    \E p \in Procs :
        /\ pc[p] = "check"
        /\ req[p].fastly # <<>>
        /\ req[p].xff # <<>>
        /\ req[p].xff[Len(req[p].xff)] # req[p].fastly
        /\ host[p] = req[p].fastly

-----------------------------------------------------------------------------
(* Properties of the pattern table *)

\* The parts of a pattern with every capture part erased.
Erased(pattern) ==
    LET trimmed == IF pattern[1] = "/" THEN Tail(pattern) ELSE pattern
        parts == Split(trimmed, "/")
    IN [i \in 1..Len(parts) |->
          IF parts[i] # <<>> /\ parts[i][1] = ":" THEN <<>> ELSE parts[i]]

\* C10: a registration that did not panic leaves a table without two
\* patterns that are identical after every capture part is erased: a
\* pattern identical, after erasure, to a registered one is rejected,
\* however many other patterns are registered.
C10_NoAmbiguousPatterns ==
    ~panicked =>
        \A i \in 1..Len(urlPathPatternHandlers), j \in 1..Len(urlPathPatternHandlers) :
            i # j => Erased(urlPathPatternHandlers[i]) # Erased(urlPathPatternHandlers[j])

\* The pattern matches the path: as many segments, and every segment of
\* the pattern that is no capture equals the segment of the path at its
\* index.
Matches(pattern, path) ==
    LET pp == splitParts(pattern)
        rp == splitParts(path)
    IN /\ Len(pp) = Len(rp)
       /\ \A i \in 1..Len(pp) : HasPrefix(pp[i], ":") \/ pp[i] = rp[i]

\* C11: if some registered pattern matches the request path, dispatch
\* invokes the handler of a registered pattern that matches the path, and
\* the not-found handler is invoked only when no registered pattern matches.
C11_DispatchFindsMatch ==
    routed.outcome # "none" =>
        LET some == \E i \in 1..Len(urlPathPatternHandlers) :
                        Matches(urlPathPatternHandlers[i], routed.path)
        IN /\ some => (routed.outcome = "handler" /\ Matches(routed.pattern, routed.path))
           /\ routed.outcome = "notFound" => ~some

\* The indices of the capture segments of a pattern.
Captures(pattern) ==
    { i \in 1..Len(splitParts(pattern)) : HasPrefix(splitParts(pattern)[i], ":") }

\* C12 as stated: the mapping attached to a dispatched request has, for
\* every capture segment of the pattern, the path segment at the same index
\* under the capture's name (the segment without its ":"), and no other key.
C12_ContextByName ==
    (routed.outcome = "handler" /\ Captures(routed.pattern) # {}) =>
        LET pp == splitParts(routed.pattern)
            rp == splitParts(routed.path)
        IN \E m \in routed.context :
              /\ DOMAIN m = { Tail(pp[i]) : i \in Captures(routed.pattern) }
              /\ \A i \in Captures(routed.pattern) : m[Tail(pp[i])] = rp[i]

\* C12 as amended: the mapping attached to a dispatched request has as its
\* keys exactly the capture segments of the pattern as they are written,
\* the leading ":" included; under each key it has the path segment at the
\* index of the last capture segment written so; and nothing is attached
\* when the pattern has no capture segment.
C12_ContextByToken ==
    routed.outcome = "handler" =>
        LET pp == splitParts(routed.pattern)
            rp == splitParts(routed.path)
            caps == Captures(routed.pattern)
        IN IF caps = {} THEN routed.context = {}
           ELSE \E m \in routed.context :
                   /\ routed.context = {m}
                   /\ DOMAIN m = { pp[i] : i \in caps }
                   /\ \A i \in caps :
                          (\A j \in caps : j > i => pp[j] # pp[i]) => m[pp[i]] = rp[i]

\* A request for /a/b was dispatched to the pattern /:x/:x, which has two
\* capture segments written alike.
C12_Witness ==
    /\ routed.outcome = "handler"
    /\ routed.pattern = <<"/", ":", "x", "/", ":", "x">>
    /\ routed.path = <<"/", "a", "/", "b">>
    /\ routed.context = { (<<":", "x">> :> <<"b">>) }

\* C13: ComparePatternHandlers is a total order on patterns: compare(a, b)
\* and compare(b, a) have opposite signs, being 0 together, and
\* compare(a, b) <= 0 and compare(b, c) <= 0 imply compare(a, c) <= 0.
C13_TotalOrder ==
    compared.done =>
        /\ (compared.ab < 0) = (compared.ba > 0)
        /\ (compared.ab > 0) = (compared.ba < 0)
        /\ (compared.ab = 0) = (compared.ba = 0)
        /\ (compared.ab <= 0 /\ compared.bc <= 0) => compared.ac <= 0

\* C14: for every pattern p, with any mix of literal and capture segments,
\* ComparePatternHandlers(p, p) is 0.
C14_Reflexive == compared.done => compared.aa = 0

\* The comparator was called on /a/:x, a pattern with a literal and a
\* capture segment, and itself.
C14_Witness ==
    /\ compared.done
    /\ compared.args[1] = <<"/", "a", "/", ":", "x">>
    /\ compared.aa = 0

\* C15: shutdown of the filter is a barrier. AfterShutdown has returned
\* only if the grooming goroutine has received the quit signal; the
\* wg.Wait() after it has returned only if the grooming goroutine has
\* exited; and from then on the grooming goroutine takes no step, so no
\* sweep of the cache runs.
C15_ShutdownBarrier ==
    /\ [](app \in {"wait", "exited"} => gpc \in {"return", "exited"})
    /\ [](app = "exited" => (gpc = "exited" /\ wg = 0 /\ hostCacheLocker # Groomer))
    /\ [][app = "exited" => (gpc' = "exited" /\ lastSweep' = lastSweep)]_vars

\* wg.Wait() has returned and the grooming goroutine has exited, with a
\* tick left unreceived in the channel of the stopped ticker.
C15_Witness ==
    /\ app = "exited"
    /\ gpc = "exited"
    /\ ticker = "stopped"
    /\ tickerC # <<>>

\* C16: with several session policies, a request goes to the
\* too-many-requests handler, and not to the next handler, if and only if at
\* least one tracker of its identity has a ban time: the ban time of any
\* single tracker is enough, whatever the other trackers hold.
C16_AnyTrackerBans ==
    \A p \in Procs :
        (Len(sessionConfigs) > 1 /\ Decided(p) /\ calls[p].bad = 0) =>
            LET trackers == remoteHosts[host[p]].sessions
            IN /\ Len(trackers) = Len(sessionConfigs)
               /\ \A i \in 1..Len(trackers) :
                      trackers[i].bannedAt # TimeZero =>
                          (calls[p].tooMany = 1 /\ calls[p].next = 0)
               /\ (\A i \in 1..Len(trackers) : trackers[i].bannedAt = TimeZero) =>
                      (calls[p].tooMany = 0 /\ calls[p].next = 1)

\* A request was rejected with a ban time in the first tracker of its
\* identity and none in the second.
C16_Witness ==
    \E p \in Procs :
        /\ Len(sessionConfigs) = 2
        /\ pc[p] = "unlock"
        /\ calls[p].tooMany = 1
        /\ remoteHosts[host[p]].sessions[1].bannedAt # TimeZero
        /\ remoteHosts[host[p]].sessions[2].bannedAt = TimeZero

\* The step of ServeHTTP on goroutine p that stores the entry of its host.
TouchStep(p) == pc[p] = "touch" /\ pc'[p] = "check"

\* C17: the first request of an identity without an entry in the cache
\* stores an entry with one tracker per configured policy, in policy order,
\* each with request count 1, window start t and no ban, and with
\* last-updated timestamp t.
C17_NewEntry ==
    [][\A p \in Procs :
          (TouchStep(p) /\ host[p] \notin DOMAIN remoteHosts) =>
              LET entry == remoteHosts'[host[p]]
              IN /\ Len(entry.sessions) = Len(sessionConfigs)
                 /\ entry.lastUpdatedAt = now
                 /\ \A i \in 1..Len(sessionConfigs) :
                        /\ entry.sessions[i].config = sessionConfigs[i]
                        /\ entry.sessions[i].requestCount = 1
                        /\ entry.sessions[i].startedAt = now
                        /\ entry.sessions[i].bannedAt = TimeZero]_vars

\* C18: a tracker updated at t with t - windowStart >= sessionDuration gets
\* window start t and request count 1; its ban time is t if the request
\* count of the expired window was above maxRequests, and the previous ban
\* time otherwise.
C18_ExpiredWindow ==
    [][\A p \in Procs :
          (TouchStep(p) /\ host[p] \in DOMAIN remoteHosts) =>
              LET old == remoteHosts[host[p]].sessions
                  new == remoteHosts'[host[p]].sessions
              IN /\ Len(new) = Len(old)
                 /\ \A i \in 1..Len(old) :
                        now - old[i].startedAt >= old[i].config.sessionDuration =>
                            /\ new[i].startedAt = now
                            /\ new[i].requestCount = 1
                            /\ new[i].config = old[i].config
                            /\ new[i].bannedAt =
                                   IF old[i].requestCount > old[i].config.maxRequests
                                   THEN now ELSE old[i].bannedAt]_vars

\* A request has just rolled over a window whose request count was above
\* maxRequests, which sets the ban time to the time of the request.
C18_Witness ==
    \E p \in Procs :
        /\ pc[p] = "check"
        /\ stored[p].sessions[1].requestCount = 1
        /\ stored[p].sessions[1].startedAt = now
        /\ stored[p].sessions[1].bannedAt = now

\* C19: a tracker updated at t with t - windowStart < sessionDuration has
\* its request count increased by exactly 1 and its ban time, window start
\* and policy unchanged, whatever happens to the other trackers of the
\* entry; and the last-updated timestamp of the entry becomes t.
C19_InsideWindow ==
    [][\A p \in Procs :
          (TouchStep(p) /\ host[p] \in DOMAIN remoteHosts) =>
              LET old == remoteHosts[host[p]].sessions
                  new == remoteHosts'[host[p]].sessions
              IN /\ Len(new) = Len(old)
                 /\ remoteHosts'[host[p]].lastUpdatedAt = now
                 /\ \A i \in 1..Len(old) :
                        now - old[i].startedAt < old[i].config.sessionDuration =>
                            new[i] = [old[i] EXCEPT !.requestCount = old[i].requestCount + 1]]_vars

\* A request has just rolled over the window of the first tracker of its
\* identity while the window of the second one, begun earlier, stays open
\* and has counted the request.
C19_Witness ==
    \E p \in Procs :
        /\ pc[p] = "check"
        /\ Len(stored[p].sessions) = 2
        /\ stored[p].lastUpdatedAt = now
        /\ stored[p].sessions[1].startedAt = now
        /\ stored[p].sessions[1].requestCount = 1
        /\ stored[p].sessions[2].startedAt < now
        /\ stored[p].sessions[2].requestCount > 0

\* C20: a request never removes an entry of the cache: the step of
\* ServeHTTP that stores an entry creates or replaces the entry of its own
\* identity and leaves every other entry as it is; the set of identities
\* in the cache shrinks only in the sweep of onHostCacheGroomingTick, and no
\* other step changes the cache.
C20_OnlySweepRemoves ==
    [][/\ \A p \in Procs :
             TouchStep(p) =>
                 /\ DOMAIN remoteHosts' = DOMAIN remoteHosts \cup {host[p]}
                 /\ \A h \in DOMAIN remoteHosts \ {host[p]} :
                        remoteHosts'[h] = remoteHosts[h]
       /\ ~(DOMAIN remoteHosts \subseteq DOMAIN remoteHosts') =>
             (gpc = "sweep" /\ gpc' = "unlock")
       /\ remoteHosts' # remoteHosts =>
             \/ gpc = "sweep" /\ gpc' = "unlock"
             \/ \E p \in Procs : TouchStep(p)]_vars

\* A request has just stored the entry of its identity next to the entry
\* of another identity, while another request goroutine waits for the lock.
C20_Witness ==
    \E p \in Procs : \E q \in Procs \ {p} :
        /\ pc[p] = "check"
        /\ pc[q] = "lock"
        /\ Cardinality(DOMAIN remoteHosts) = 2
        /\ remoteHosts[host[p]] = stored[p]

\* The reference comparison of two segment sequences of equal length from
\* index i on: the sign of the comparison at the first index where both
\* segments are literal and differ, and 0 without such an index.
RECURSIVE ReferenceFrom(_, _, _)
ReferenceFrom(l, r, i) ==
    IF i > Len(l) THEN 0
    ELSE IF HasPrefix(l[i], ":") \/ HasPrefix(r[i], ":") \/ l[i] = r[i]
         THEN ReferenceFrom(l, r, i + 1)
    ELSE IF CmpCompare(l[i], r[i]) < 0 THEN -1 ELSE 1

\* The reference comparison: the shorter sequence first.
Reference(l, r) ==
    IF Len(l) < Len(r) THEN -1
    ELSE IF Len(l) > Len(r) THEN 1
    ELSE ReferenceFrom(l, r, 1)

\* C21: compareParts agrees with the reference comparison for every pair
\* of segment sequences: a position where either segment is a capture
\* never influences the result.
C21_AgreesWithReference ==
    compared.done =>
        LET a == splitParts(compared.args[1])
            b == splitParts(compared.args[2])
            c == splitParts(compared.args[3])
        IN /\ compared.ab = Reference(a, b)
           /\ compared.ba = Reference(b, a)
           /\ compared.bc = Reference(b, c)
           /\ compared.ac = Reference(a, c)
           /\ compared.aa = Reference(a, a)

\* C22: after every accepted AddPathPatternHandler call the table is
\* sorted: ComparePatternHandlers of each binding and the next one is <= 0.
C22_TableSorted ==
    ~panicked =>
        \A i \in 1..(Len(urlPathPatternHandlers) - 1) :
            ComparePatternHandlers(urlPathPatternHandlers[i],
                                   urlPathPatternHandlers[i + 1]) <= 0

\* C26: whenever the lookup of the section handler reports a match at an
\* index, the pattern at that index has as many segments as the request
\* path and each of its literal segments equals the path segment at its
\* index; so no request dispatched through the section handler reaches the
\* panic of urlPatternHandler.ServeHTTP.
C26_FoundMatches ==
    /\ routed.outcome # "panic"
    /\ built =>
          \A path \in Paths :
              LET r == BinarySearchFunc(urlPathPatternHandlers, path)
              IN r.found =>
                    /\ r.idx \in 1..Len(urlPathPatternHandlers)
                    /\ Matches(urlPathPatternHandlers[r.idx], path)
                    /\ PatternServeHTTP(urlPathPatternHandlers[r.idx], path).outcome
                          = "handler"

\* A request for /a/b was dispatched to a pattern of two segments in a
\* table that also holds a pattern of one segment.
C26_Witness ==
    /\ routed.outcome = "handler"
    /\ routed.path = <<"/", "a", "/", "b">>
    /\ Len(splitParts(routed.pattern)) = 2
    /\ \E i \in 1..Len(urlPathPatternHandlers) :
           Len(splitParts(urlPathPatternHandlers[i])) = 1

\* C27: ValidateResponders returns its error only if the handler list
\* holds two patterns whose segment sequences are identical after the
\* capture segments are replaced by the empty placeholder.
C27_RejectsOnlyAmbiguous ==
    /\ panicked =>
          \E i \in 1..Len(urlPathPatternHandlers) :
              \E j \in 1..Len(urlPathPatternHandlers) :
                  /\ i # j
                  /\ Erased(urlPathPatternHandlers[i]) = Erased(urlPathPatternHandlers[j])
    /\ ~ValidateResponders(urlPathPatternHandlers) =>
          \E i \in 1..Len(urlPathPatternHandlers) :
              \E j \in 1..Len(urlPathPatternHandlers) :
                  /\ i # j
                  /\ staticPatternOf(urlPathPatternHandlers[i])
                        = staticPatternOf(urlPathPatternHandlers[j])

\* AddPathPatternHandler panicked on /a/:y, added to a table that holds
\* /a/:x.
C27_Witness ==
    /\ panicked
    /\ lastAdd = <<"/", "a", "/", ":", "y">>
    /\ \E i \in 1..Len(urlPathPatternHandlers) :
           urlPathPatternHandlers[i] = <<"/", "a", "/", ":", "x">>

\* The shortest sessionDuration of the configured policies.
MinDuration ==
    CHOOSE d \in { sessionConfigs[i].sessionDuration : i \in 1..Len(sessionConfigs) } :
        \A i \in 1..Len(sessionConfigs) : d <= sessionConfigs[i].sessionDuration

\* C23: the ban time of a tracker changes only on a request that rolls its
\* window over, and a new tracker has none; so a request that arrives
\* strictly within the shortest sessionDuration after the creation of the
\* entry of its identity is forwarded, however many requests came before.
C23_NoBanInsideWindow ==
    /\ [](\A p \in Procs :
            (/\ Decided(p)
             /\ calls[p].bad = 0
             /\ createdAt[host[p]] # TimeZero
             /\ stored[p].lastUpdatedAt - createdAt[host[p]] < MinDuration)
            => (calls[p].next = 1 /\ calls[p].tooMany = 0))
    /\ [][\A p \in Procs :
             TouchStep(p) =>
                 LET new == remoteHosts'[host[p]].sessions
                 IN IF host[p] \in DOMAIN remoteHosts
                    THEN \A i \in 1..Len(new) :
                            LET old == remoteHosts[host[p]].sessions[i]
                            IN new[i].bannedAt # old.bannedAt =>
                                  now - old.startedAt >= old.config.sessionDuration
                    ELSE \A i \in 1..Len(new) : new[i].bannedAt = TimeZero]_vars

\* The fourth request of an identity within the window that began with its
\* entry, under a policy of maxRequests 1, is forwarded.
C23_Witness ==
    \E p \in Procs :
        /\ Len(sessionConfigs) = 1
        /\ sessionConfigs[1].maxRequests = 1
        /\ pc[p] = "next"
        /\ calls[p].next = 1
        /\ sent[host[p]] = 4
        /\ stored[p].lastUpdatedAt = createdAt[host[p]]

\* C24: once a request of an identity was rejected, every later request of
\* it is rejected too, as long as no sweep removed its entry; the rejected
\* requests still advance the trackers and the last-updated timestamp of
\* the entry, and only a sweep ends the rejections.
C24_RejectedStaysRejected ==
    [][/\ \A p \in Procs :
             (/\ TouchStep(p)
              /\ host[p] \in DOMAIN rejected
              /\ rejected[host[p]] > 0) =>
                 /\ host[p] \in DOMAIN remoteHosts
                 /\ remoteHosts'[host[p]].lastUpdatedAt = now
                 /\ \A i \in 1..Len(remoteHosts[host[p]].sessions) :
                        LET old == remoteHosts[host[p]].sessions[i]
                            new == remoteHosts'[host[p]].sessions[i]
                        IN \/ new.requestCount = old.requestCount + 1
                           \/ new.requestCount = 1 /\ new.startedAt = now
                 /\ rejected'[host[p]] = rejected[host[p]]
       /\ \A p \in Procs :
             (/\ pc[p] = "check"
              /\ pc'[p] # "check"
              /\ rejected[host[p]] > 0) =>
                 /\ pc'[p] = "unlock"
                 /\ calls'[p].tooMany = 1
                 /\ calls'[p].next = 0
                 /\ rejected'[host[p]] = rejected[host[p]] + 1
       /\ \A h \in DOMAIN rejected :
             (rejected[h] > 0 /\ (h \notin DOMAIN rejected' \/ rejected'[h] < rejected[h])) =>
                 /\ gpc = "sweep"
                 /\ gpc' = "unlock"
                 /\ h \notin DOMAIN remoteHosts']_vars

\* A second request of an identity was rejected, with the entry updated
\* at its time.
C24_Witness ==
    \E p \in Procs :
        /\ pc[p] = "unlock"
        /\ calls[p].tooMany = 1
        /\ rejected[host[p]] = 2
        /\ remoteHosts[host[p]].lastUpdatedAt = now

\* The trackers of a cache without the banDuration of their policies.
WithoutBanDuration(cache) ==
    [h \in DOMAIN cache |->
        [lastUpdatedAt |-> cache[h].lastUpdatedAt,
         sessions |->
            [i \in 1..Len(cache[h].sessions) |->
                LET s == cache[h].sessions[i]
                IN [requestCount    |-> s.requestCount,
                    startedAt       |-> s.startedAt,
                    bannedAt        |-> s.bannedAt,
                    maxRequests     |-> s.config.maxRequests,
                    sessionDuration |-> s.config.sessionDuration]]]]

\* C25: two filters that differ only in the banDuration of their policies
\* and get the same requests, clock readings and sweeps make the same
\* decision for every request and hold the same request counts, window
\* starts and ban times.
C25_BanDurationUnused ==
    /\ twin.decisionA = twin.decisionB
    /\ WithoutBanDuration(twin.a) = WithoutBanDuration(twin.b)

\* Both filters, with different banDuration values, have rejected a
\* request that rolled a window over one period after a ban.
C25_Witness ==
    /\ twin.configs # twin.others
    /\ twin.decisionA = "tooMany"
    /\ twin.decisionB = "tooMany"
    /\ twin.a[twin.host].sessions[1].startedAt = twin.t
    /\ twin.a[twin.host].sessions[1].bannedAt # TimeZero
    /\ twin.a[twin.host].sessions[1].bannedAt < twin.t

\* C28: for every request the basic-authentication middleware calls the
\* next handler at most once, and never both calls the next handler and
\* writes a 401 response, requests of method OPTIONS included.
C28_NextAtMostOnce ==
    auth.pc # "none" =>
        /\ auth.nextCalls <= 1
        /\ ~(auth.nextCalls > 0 /\ auth.unauthorized > 0)

\* C29 as stated: under fair scheduling, once httpServer.ListenAndServe has
\* returned, AfterShutdown returns and the grooming goroutine exits, and
\* the grooming goroutine sweeps at most once after the ticker was stopped.
C29_AtMostOneSweep ==
    /\ (app = "closed") ~> (app = "wait")
    /\ (app = "closed") ~> (gpc = "exited")
    /\ [](sweepsAfterStop <= 1)

\* C29, amended: under fair scheduling, once httpServer.ListenAndServe has
\* returned, AfterShutdown returns and the grooming goroutine exits, and
\* the grooming goroutine sweeps at most twice after the ticker was stopped:
\* once for a tick it had received before the stop and once for a tick left
\* in the channel.
C29_ShutdownTerminates ==
    /\ (app = "closed") ~> (app = "wait")
    /\ (app = "closed") ~> (gpc = "exited")
    /\ [](sweepsAfterStop <= 2)

\* AfterShutdown and wg.Wait() have returned and the grooming goroutine has
\* exited after two sweeps since the ticker was stopped.
C29_Witness ==
    /\ app = "exited"
    /\ gpc = "exited"
    /\ sweepsAfterStop = 2

====
